---- MODULE Spec2Model ----
(***************************************************************************)
(* The "factor" command of src/cli/math.cpp: trial division by the table   *)
(* of small primes (remove_small_factors), Pollard's rho with Brent's      *)
(* cycle finding in Montgomery form (rho), and the recursive orchestrator  *)
(* (factorize), driven by the command's go().                              *)
(*                                                                         *)
(* The call stack of factorize is the sequence `stack` of frames; the      *)
(* locals of the one rho attempt that can be running are the record `rho`. *)
(***************************************************************************)
EXTENDS Integers, Sequences, FiniteSets

\* ------------------------------------------------------------------ bounds

\* go() is run on every n with -MaxNeg <= n <= MaxN.
MaxN == 343
MaxNeg == 3
\* factors.push_back stops here: only the run on n = 0 (which appends 2
\* for ever) comes near it, every other list is shorter than log2(MaxN)+1.
MaxFactors == 10
\* Stands for the cap 0xFFFF0000 of math.cpp:190, which no run on a modulus
\* this small can reach: scaled down so that the bail-out is taken.
IterCap == 8

\* ------------------------------------------------ external collaborators

\* Botan::PRIMES, ascending, first entry 3: the prefix below 2^8 + 2^7. The
\* scan of remove_small_factors stops at the first entry above n, so for
\* n <= MaxN + 1 the rest of the table (up to 65521) is never read.
PRIMES ==
  <<  3,   5,   7,  11,  13,  17,  19,  23,  29,  31,  37,  41,  43,  47,
     53,  59,  61,  67,  71,  73,  79,  83,  89,  97, 101, 103, 107, 109,
    113, 127, 131, 137, 139, 149, 151, 157, 163, 167, 173, 179, 181, 191,
    193, 197, 199, 211, 223, 227, 229, 233, 239, 241, 251, 257, 263, 269,
    271, 277, 281, 283, 293, 307, 311, 313, 317, 331, 337, 347, 349, 353,
    359, 367, 373, 379, 383 >>

PRIME_TABLE_SIZE == Len(PRIMES)

\* Botan::gcd on non-negative arguments (Euclid); gcd(0, n) = n.
RECURSIVE gcd(_, _)
gcd(a, b) == IF b = 0 THEN a ELSE gcd(b, a % b)

\* Botan::is_prime, taken as exact: false for everything below 2.
is_prime(n) == n > 1 /\ \A q \in 2..(n - 1) : (q * q > n) \/ (n % q # 0)

\* BigInt::is_even: the low bit of the magnitude.
is_even(n) == n % 2 = 0

\* Width of a BigInt word; a modulus below 2^64 has one significant word.
BOTAN_MP_WORD_BITS == 64

\* b^e mod n by square and multiply.
RECURSIVE PowMod(_, _, _)
PowMod(b, e, n) ==
  IF e = 0 THEN 1 % n
  ELSE IF e % 2 = 0
    THEN LET h == PowMod(b, e \div 2, n) IN (h * h) % n
    ELSE (b * PowMod(b, e - 1, n)) % n

\* Montgomery_Params(n) is valid for an odd modulus >= 3 only.
MontyValid(n) == ~is_even(n) /\ n >= 3

\* Montgomery_Params(n), the constants it precomputes for the modulus p:
\* R1 = R mod p with R = 2^BOTAN_MP_WORD_BITS (the Montgomery form of 1),
\* and Rinv = R^-1 mod p = ((p + 1) / 2)^BOTAN_MP_WORD_BITS mod p, the
\* factor of every Montgomery reduction.
Montgomery_Params(n) ==
  [p    |-> n,
   R1   |-> PowMod(2, BOTAN_MP_WORD_BITS, n),
   Rinv |-> PowMod((n + 1) \div 2, BOTAN_MP_WORD_BITS, n)]

\* Montgomery_Int::square_this / mul_by: a * b * R^-1 mod p.
MontyMul(a, b, m) == (((a * b) % m.p) * m.Rinv) % m.p
\* Montgomery_Int::add and operator-=: modular addition, subtraction.
MontyAdd(a, b, m) == (a + b) % m.p
MontySub(a, b, m) == (a + m.p - b) % m.p
\* Montgomery_Int::value(): leave Montgomery form.
MontyValue(a, m) == (a * m.Rinv) % m.p

\* BigInt::random_integer(rng, 2, n - 3): the seeds rho may draw, both ends
\* taken as included.
SeedRange(n) == 2..(n - 3)

\* std::sort on the factor list (insertion sort into a sorted prefix).
RECURSIVE InsertSorted(_, _)
InsertSorted(s, v) ==
  IF s = <<>> THEN <<v>>
  ELSE IF v <= Head(s) THEN <<v>> \o s
  ELSE <<Head(s)>> \o InsertSorted(Tail(s), v)

RECURSIVE SortSeq(_)
SortSeq(s) == IF s = <<>> THEN <<>> ELSE InsertSorted(SortSeq(Tail(s)), Head(s))

\* ------------------------------------------------------------------ state

VARIABLES
  n_arg,       \* go(): the parsed argument n
  status,      \* "init": go() not yet run; "run"; "done"; "threw"
  stack,       \* the frames of factorize, innermost last
  rho,         \* the locals of the running rho attempt, or NoRho
  output,      \* what go() prints after the colon
  oracleUsed,  \* is_prime has been called
  rhoUsed      \* rho has been called

vars == <<n_arg, status, stack, rho, output, oracleUsed, rhoUsed>>

NoRho == [active |-> FALSE]

Top == stack[Len(stack)]
SetTop(f) == [stack EXCEPT ![Len(stack)] = f]

\* A fresh frame of factorize(n_in): n = n_in, about to run
\* remove_small_factors(n).
Frame(n_in) ==
  [n_in |-> n_in, n |-> n_in, factors |-> <<>>, a_factor |-> 0,
   j |-> 0, pc |-> "rsf_even"]

Init ==
  /\ n_arg \in (0 - MaxNeg)..MaxN
  /\ status = "init"
  /\ stack = <<>>
  /\ rho = NoRho
  /\ output = <<>>
  /\ oracleUsed = FALSE
  /\ rhoUsed = FALSE

\* go(): parse n and call factorize(n, rng()); nothing is checked first.
Go ==
  /\ status = "init"
  /\ status' = "run"
  /\ stack' = <<Frame(n_arg)>>
  /\ UNCHANGED <<n_arg, rho, output, oracleUsed, rhoUsed>>

\* ------------------------------------------------- remove_small_factors

\* n /= 2 in the even loop.
Halve(n) == n \div 2

\* Mutant of EvenBody: the push_back is lost.
EvenBody_NoPush(f) == [f EXCEPT !.n = Halve(@)]

\* { factors.push_back(2); n /= 2; }
EvenBody(f) == [f EXCEPT !.factors = Append(@, 2), !.n = Halve(@)]

\* while(n.is_even()) { factors.push_back(2); n /= 2; }
RsfEven ==
  /\ status = "run" /\ stack # <<>> /\ Top.pc = "rsf_even"
  /\ IF is_even(Top.n)
       THEN /\ Len(Top.factors) < MaxFactors
            /\ stack' = SetTop(EvenBody(Top))
       ELSE stack' = SetTop([Top EXCEPT !.pc = "rsf_scan", !.j = 0])
  /\ UNCHANGED <<n_arg, status, rho, output, oracleUsed, rhoUsed>>

\* Mutant of ScanStops: the scan already stops at n = prime.
ScanStops_AtPrime(n, prime) == n <= prime

\* if(n < prime) break;
ScanStops(n, prime) == n < prime

\* Mutant of Quotient: the division is lost.
Quotient_NoDivide(n, x) == n

\* n /= x;
Quotient(n, x) == n \div x

\* while(x != 1) { x /= prime; factors.push_back(prime); }
RECURSIVE PushWhile(_, _, _)
PushWhile(x, prime, factors) ==
  IF x # 1 THEN PushWhile(x \div prime, prime, Append(factors, prime))
  ELSE factors

\* Mutant of ScanBody: every copy of the prime is divided out and appended.
RECURSIVE StripAll(_, _)
StripAll(f, prime) ==
  IF f.n % prime = 0
    THEN StripAll([f EXCEPT !.n = @ \div prime,
                            !.factors = Append(@, prime)], prime)
    ELSE f
ScanBody_AllCopies(f, prime) == [StripAll(f, prime) EXCEPT !.j = f.j + 1]

\* One pass of the body of the scan for a prime that does not stop it:
\* x = gcd(n, prime); if(x != 1) { n /= x; while(x != 1) ... }
ScanBody(f, prime) ==
  LET x == gcd(f.n, prime) IN
  IF x # 1
    THEN [f EXCEPT !.n = Quotient(f.n, x),
                   !.factors = PushWhile(x, prime, f.factors),
                   !.j = f.j + 1]
    ELSE [f EXCEPT !.j = f.j + 1]

\* for(j = 0; j != PRIME_TABLE_SIZE; j++) { ... } return factors;
RsfScan ==
  /\ status = "run" /\ stack # <<>> /\ Top.pc = "rsf_scan"
  /\ IF Top.j = PRIME_TABLE_SIZE \/ ScanStops(Top.n, PRIMES[Top.j + 1])
       THEN stack' = SetTop([Top EXCEPT !.pc = "rsf_ret"])
       ELSE stack' = SetTop(ScanBody(Top, PRIMES[Top.j + 1]))
  /\ UNCHANGED <<n_arg, status, rho, output, oracleUsed, rhoUsed>>

\* ---------------------------------------------------------------- factorize

\* std::vector<BigInt> factors = remove_small_factors(n);
RsfReturn ==
  /\ status = "run" /\ stack # <<>> /\ Top.pc = "rsf_ret"
  /\ stack' = SetTop([Top EXCEPT !.pc = "while"])
  /\ UNCHANGED <<n_arg, status, rho, output, oracleUsed, rhoUsed>>

\* Mutant of WhileCond: the loop is left at 0, not at 1.
WhileCond_NonZero(n) == n # 0

\* while(n != 1)
WhileCond(n) == n # 1

\* The head of the outer loop: leave it when n = 1; with n prime append n
\* and break; otherwise a_factor = 0 and on to the retry loop.
WhileHead ==
  /\ status = "run" /\ stack # <<>> /\ Top.pc = "while"
  /\ IF ~WhileCond(Top.n)
       THEN /\ stack' = SetTop([Top EXCEPT !.pc = "return"])
            /\ UNCHANGED oracleUsed
       ELSE /\ oracleUsed' = TRUE
            /\ IF is_prime(Top.n)
                 THEN stack' = SetTop([Top EXCEPT !.factors = Append(@, Top.n),
                                                  !.pc = "return"])
                 ELSE stack' = SetTop([Top EXCEPT !.a_factor = 0,
                                                  !.pc = "retry"])
  /\ UNCHANGED <<n_arg, status, rho, output, rhoUsed>>

\* ---------------------------------------------------------------------- rho

\* The locals of rho(n) after its setup with the drawn seed: monty_n, one,
\* x (the seed taken as a Montgomery form, redc_needed = false), y = x,
\* z = one, i = 1, k = 2.
RhoLocals(n, seed) ==
  LET m == Montgomery_Params(n) IN
  [active |-> TRUE, n |-> n, monty_n |-> m, one |-> m.R1, seed |-> seed,
   x |-> seed, y |-> seed, z |-> m.R1, d |-> 0,
   i |-> 1, k |-> 2, exit |-> "none", ret |-> 0]

\* while(a_factor == 0) a_factor = rho(n, rng): enter rho and draw the seed.
\* Montgomery_Params throws on an even modulus or one below 3.
RhoCallOk(seed) ==
  /\ status = "run" /\ stack # <<>> /\ Top.pc = "retry" /\ Top.a_factor = 0
  /\ MontyValid(Top.n)
  /\ seed \in SeedRange(Top.n)
  /\ rho' = RhoLocals(Top.n, seed)
  /\ stack' = SetTop([Top EXCEPT !.pc = "in_rho"])
  /\ rhoUsed' = TRUE
  /\ UNCHANGED <<n_arg, status, output, oracleUsed>>

RhoCallThrows ==
  /\ status = "run" /\ stack # <<>> /\ Top.pc = "retry" /\ Top.a_factor = 0
  /\ ~MontyValid(Top.n)
  /\ status' = "threw"
  /\ rhoUsed' = TRUE
  /\ UNCHANGED <<n_arg, stack, rho, output, oracleUsed>>

\* Mutant of CapReached: the bail-out is lost.
CapReached_Never(i) == FALSE

\* if(i >= 0xFFFF0000) break;
CapReached(i) == i >= IterCap

\* if(i == k || i % 128 == 0)
CheckDue(i, k) == i = k \/ i % 128 = 0

\* Mutant of Verdict: d == n is not told from a divisor.
Verdict_NoAbort(d, n) == IF d # 1 THEN "found" ELSE "go_on"

\* After d = gcd(z.value(), n): "abort" (d == n, break), "found"
\* (d != 1, return d) or "go_on".
Verdict(d, n) ==
  IF d = n THEN "abort" ELSE IF d # 1 THEN "found" ELSE "go_on"

\* i++
NextI(i) == i + 1

\* One pass of while(true) on the locals r.
RhoIter(r) ==
  LET i  == NextI(r.i)
      x  == MontyAdd(MontyMul(r.x, r.x, r.monty_n), r.one, r.monty_n)
      t  == MontySub(r.y, x, r.monty_n)
      z  == MontyMul(r.z, t, r.monty_n)
      d  == gcd(MontyValue(z, r.monty_n), r.n)
      v  == Verdict(d, r.n)
  IN
  IF CapReached(i)
    THEN [r EXCEPT !.i = i, !.exit = "cap", !.ret = 0]
  ELSE IF CheckDue(i, r.k) /\ v = "abort"
    THEN [r EXCEPT !.i = i, !.x = x, !.z = r.one, !.d = d,
                   !.exit = "abort", !.ret = 0]
  ELSE IF CheckDue(i, r.k) /\ v = "found"
    THEN [r EXCEPT !.i = i, !.x = x, !.z = r.one, !.d = d,
                   !.exit = "found", !.ret = d]
  ELSE [r EXCEPT !.i = i, !.x = x,
                 !.z = IF CheckDue(i, r.k) THEN r.one ELSE z,
                 !.d = IF CheckDue(i, r.k) THEN d ELSE r.d,
                 !.y = IF i = r.k THEN x ELSE r.y,
                 !.k = IF i = r.k THEN 2 * r.k ELSE r.k]

RhoStep ==
  /\ status = "run" /\ rho.active /\ rho.exit = "none"
  /\ rho' = RhoIter(rho)
  /\ UNCHANGED <<n_arg, status, stack, output, oracleUsed, rhoUsed>>

\* return d; or the "failed" return 0; the caller assigns it to a_factor.
RhoReturn ==
  /\ status = "run" /\ rho.active /\ rho.exit # "none"
  /\ stack' = SetTop([Top EXCEPT !.a_factor = rho.ret, !.pc = "retry"])
  /\ rho' = NoRho
  /\ UNCHANGED <<n_arg, status, output, oracleUsed, rhoUsed>>

\* ------------------------------------------------- factorize, continued

\* a_factor != 0 ends the retry loop: factorize(a_factor, rng) is called.
Recurse ==
  /\ status = "run" /\ stack # <<>> /\ Top.pc = "retry" /\ Top.a_factor # 0
  /\ stack' = Append(SetTop([Top EXCEPT !.pc = "in_call"]), Frame(Top.a_factor))
  /\ UNCHANGED <<n_arg, status, rho, output, oracleUsed, rhoUsed>>

\* The inner call returns: its factors are appended one by one, then
\* n /= a_factor, and the outer loop goes round.
RecurseReturn ==
  /\ status = "run" /\ Len(stack) > 1 /\ Top.pc = "return"
  /\ LET caller == stack[Len(stack) - 1] IN
     stack' = [SubSeq(stack, 1, Len(stack) - 1) EXCEPT ![Len(stack) - 1] =
                 [caller EXCEPT !.factors = @ \o Top.factors,
                                !.n = Quotient(@, caller.a_factor),
                                !.pc = "while"]]
  /\ UNCHANGED <<n_arg, status, rho, output, oracleUsed, rhoUsed>>

\* The outermost factorize returns to go(), which sorts and prints.
GoReturn ==
  /\ status = "run" /\ Len(stack) = 1 /\ Top.pc = "return"
  /\ output' = SortSeq(Top.factors)
  /\ status' = "done"
  /\ UNCHANGED <<n_arg, stack, rho, oracleUsed, rhoUsed>>

Next ==
  \/ Go
  \/ RsfEven
  \/ RsfScan
  \/ RsfReturn
  \/ WhileHead
  \/ \E seed \in 2..MaxN : RhoCallOk(seed)
  \/ RhoCallThrows
  \/ RhoStep
  \/ RhoReturn
  \/ Recurse
  \/ RecurseReturn
  \/ GoReturn

Spec == Init /\ [][Next]_vars

\* --------------------------------------------------------------- fairness

\* A whole rho attempt, run from the locals r to its exit.
RECURSIVE RhoRun(_)
RhoRun(r) ==
  IF r.exit # "none" THEN r
  ELSE RhoRun(RhoIter(r))

\* The moduli rho can be called on, and for each the seeds on which one
\* attempt finds a divisor.
RhoModuli == {n \in 3..(MaxN + 1) : MontyValid(n) /\ ~is_prime(n)}
GoodPairs ==
  {p \in UNION {{<<n, seed>> : seed \in SeedRange(n)} : n \in RhoModuli} :
     RhoRun(RhoLocals(p[1], p[2])).exit = "found"}

\* A draw of a seed whose attempt will find a divisor.
GoodDraw ==
  \E seed \in 2..MaxN : RhoCallOk(seed) /\ <<Top.n, seed>> \in GoodPairs

\* Every draw is uniform over the seed range: when the retry loop comes
\* back for ever to a modulus on which some seed finds a divisor, such a
\* seed is drawn in the end; and a step that can be taken is taken.
FairSpec == Spec /\ WF_vars(Next) /\ SF_vars(GoodDraw)

\* ------------------------------------------------------------ properties

RECURSIVE Product(_)
Product(s) == IF s = <<>> THEN 1 ELSE Head(s) * Product(Tail(s))

RECURSIVE CountOf(_, _)
CountOf(s, v) ==
  IF s = <<>> THEN 0
  ELSE (IF Head(s) = v THEN 1 ELSE 0) + CountOf(Tail(s), v)

\* The largest e with 2^e dividing n (n > 0).
RECURSIVE Val2(_)
Val2(n) == IF n % 2 = 0 THEN 1 + Val2(n \div 2) ELSE 0

AllPrime(s) == \A m \in DOMAIN s : is_prime(s[m])

TablePrimes == {PRIMES[m] : m \in DOMAIN PRIMES}

InRsf(f) == f.pc \in {"rsf_even", "rsf_scan", "rsf_ret"}

\* C1: whenever a call factorize(n_in) with n_in > 1 returns, at the top or
\* in the recursion and whatever seeds were drawn, the product of the
\* returned list is n_in and every entry of it is prime.
C1_ProductAndPrimes ==
  \A m \in DOMAIN stack :
    (stack[m].pc = "return" /\ stack[m].n_in > 1) =>
      /\ Product(stack[m].factors) = stack[m].n_in
      /\ AllPrime(stack[m].factors)

\* C1 witness: go() is done on a composite that needed rho, three or more
\* prime factors returned.
C1_Witness ==
  /\ status = "done" /\ rhoUsed /\ n_arg > 1
  /\ Len(stack[1].factors) >= 3
  /\ Product(stack[1].factors) = n_arg

\* C2 (as claimed): whenever the retry loop is about to call rho(n) on a
\* valid modulus, some seed of the sampled range makes that one attempt
\* return a divisor d with 1 < d < n.
C2_SomeSeedSucceeds ==
  \A m \in DOMAIN stack :
    (stack[m].pc = "retry" /\ stack[m].a_factor = 0 /\ MontyValid(stack[m].n)) =>
      \E seed \in SeedRange(stack[m].n) :
        LET r == RhoRun(RhoLocals(stack[m].n, seed)) IN
          1 < r.ret /\ r.ret < stack[m].n

\* C3: a rho attempt ends with 0 or with a proper divisor d, 1 < d < n and
\* d | n, never with n or 1; when the batched gcd is n it ends with 0. The
\* value the caller then holds in a_factor is the same.
C3_RhoNeverReturnsN ==
  /\ (rho.active /\ rho.exit # "none") =>
       /\ rho.ret = 0 \/ (1 < rho.ret /\ rho.ret < rho.n /\ rho.n % rho.ret = 0)
       /\ (rho.d = rho.n) => (rho.ret = 0 /\ rho.exit = "abort")
  /\ \A m \in DOMAIN stack :
       (stack[m].pc = "retry" /\ stack[m].a_factor # 0) =>
         /\ 1 < stack[m].a_factor /\ stack[m].a_factor < stack[m].n
         /\ stack[m].n % stack[m].a_factor = 0

\* C3 witness: an attempt on a composite whose batched gcd came out as n.
C3_Witness ==
  /\ rho.active /\ rho.exit = "abort" /\ rho.d = rho.n /\ rho.ret = 0
  /\ ~is_prime(rho.n)

\* C4 (as claimed): factorize, and so remove_small_factors, is never
\* entered with n <= 0.
C4_CallerRejectsNonPositive ==
  \A m \in DOMAIN stack : stack[m].n_in > 0

\* C5 (as claimed): for every n >= 1 the run of go() on n comes to its end,
\* under fair drawing of the seeds.
C5_FactorizeTerminates ==
  (status = "init" /\ n_arg >= 1) ~> (status = "done")

\* C6: every pass of the loop of rho raises i by exactly one, i never
\* exceeds the cap, and an attempt whose i has come to the cap has ended
\* with the sentinel 0; every exit is the cap, the d == n abort (both 0)
\* or a divisor.
C6_RhoAttemptBounded ==
  [][ (rho.active /\ rho.exit = "none" /\ rho' # rho) =>
        /\ rho'.active
        /\ rho'.i = rho.i + 1
        /\ rho'.i <= IterCap
        /\ (rho'.i >= IterCap) => (rho'.exit = "cap")
        /\ rho'.exit \in {"none", "cap", "abort", "found"}
        /\ (rho'.exit \in {"cap", "abort"}) => (rho'.ret = 0)
        /\ (rho'.exit = "found") => (rho'.ret # 0) ]_vars

\* C6 witness: an attempt that ran into the cap.
C6_Witness ==
  rho.active /\ rho.exit = "cap" /\ rho.i = IterCap /\ rho.ret = 0

\* C7: a returned list of factorize(n_in), n_in > 0 even, holds 2 exactly
\* as often as 2 divides n_in; the frames of the recursive calls (on the
\* divisors rho found) hold no 2 at all.
C7_TwoAdicValuation ==
  /\ \A m \in DOMAIN stack :
       (stack[m].pc = "return" /\ stack[m].n_in > 0 /\ is_even(stack[m].n_in)) =>
         CountOf(stack[m].factors, 2) = Val2(stack[m].n_in)
  /\ \A m \in DOMAIN stack :
       (m > 1) => CountOf(stack[m].factors, 2) = 0
  /\ (rho.active /\ rho.exit = "found") => ~is_even(rho.ret)

\* C7 witness: go() is done on an even n whose odd part needed rho.
C7_Witness ==
  /\ status = "done" /\ n_arg > 0 /\ is_even(n_arg) /\ rhoUsed
  /\ CountOf(stack[1].factors, 2) = Val2(n_arg)

\* C8: for n = 2 or n in the table, remove_small_factors leaves the
\* residual 1 and the list <<n>>, that list is what factorize returns, and
\* neither is_prime nor rho is ever called.
C8_TablePrimeAlone ==
  (n_arg = 2 \/ n_arg \in TablePrimes) =>
    /\ ~oracleUsed /\ ~rhoUsed
    /\ \A m \in DOMAIN stack :
         (stack[m].pc \in {"rsf_ret", "while", "return"}) =>
           (stack[m].n = 1 /\ stack[m].factors = <<n_arg>>)
    /\ (status = "done") => (output = <<n_arg>>)

\* C8 witness: go() is done on a table prime that is not the first entry.
C8_Witness ==
  /\ status = "done" /\ n_arg \in TablePrimes /\ n_arg > PRIMES[1]
  /\ stack[1].factors = <<n_arg>>

\* C9: for n = 1 nothing is ever appended, n stays 1, neither is_prime nor
\* rho is called, and the returned list is empty.
C9_OneGivesEmpty ==
  (n_arg = 1) =>
    /\ ~oracleUsed /\ ~rhoUsed
    /\ \A m \in DOMAIN stack : stack[m].factors = <<>> /\ stack[m].n = 1
    /\ (status = "done") => (output = <<>>)

\* C9 witness: go() is done on 1.
C9_Witness ==
  status = "done" /\ n_arg = 1 /\ stack[1].factors = <<>>

====
